---- MODULE Spec2Model ----
(***************************************************************************)
(* A model of the authentication/session core of applemusic-mcp:           *)
(*   - the developer-token minter and its caching single-flight provider   *)
(*     (auth/appleMusicAuth.ts),                                           *)
(*   - the request-time user-credential resolution of the HTTP handler     *)
(*     and of the library tool handlers (client.ts).                       *)
(*                                                                         *)
(* The program runs on one JavaScript event loop.  A handler runs to       *)
(* completion up to its next await; the continuation of an await on a      *)
(* settled promise is a microtask, microtasks run in FIFO order, and the   *)
(* host (an arriving HTTP request, a finished crypto job, process.env      *)
(* being changed) acts only when the microtask queue is empty.             *)
(***************************************************************************)
EXTENDS Integers, Sequences, FiniteSets, TLC

(* ------------------------------ bounds --------------------------------- *)
\* getToken() invocations in one behaviour
NumCalls == 4
\* mint operations (IIFE promises) in one behaviour
MaxMints == 3
\* the clock runs from 0 to MaxNow seconds
MaxNow == 1
\* getToken() invocations the host may queue in one task (a JSON-RPC batch)
MaxBatch == 2

(* ------------------------- program constants --------------------------- *)
SIX_MONTHS_SECONDS == 15552000
MIN_TTL_SECONDS == 60
DEFAULT_TTL_SECONDS == 86400
FALLBACK_TTL_SECONDS == 3600
REFRESH_MARGIN_SECONDS == 300

Calls == 1..NumCalls
MintIds == 1..MaxMints

\* process.env.APPLE_MUSIC_DEV_TOKEN_TTL_SECONDS after parseInt, when set
TTLChoices == {-5, 0, 60, 300, 301, 15552000, 15552001}
\* APPLE_MUSIC_TEAM_ID / KEY_ID / PRIVATE_KEY: all present and the key a valid
\* PKCS8 PEM ("ok"), one of them missing ("missing"), or present with a key
\* importPKCS8 cannot parse ("badkey")
CredStates == {"ok", "missing", "badkey"}

VARIABLES
  now,          \* Math.floor(Date.now() / 1000)
  env,          \* process.env as getDeveloperConfigFromEnv reads it
  cached,       \* createDeveloperTokenProvider: let cached
  inFlight,     \* createDeveloperTokenProvider: let inFlight (0 = undefined)
  mints,        \* the promises of the mint IIFEs, by mint id
  calls,        \* the getToken() invocations
  microtasks,   \* the event loop's microtask queue
  sessionTokens,\* client.ts: const sessionTokens = new Map<string, string>()
  pendingToken, \* client.ts: let pendingToken ("" = undefined)
  reqs,         \* the HTTP requests being served by main's request listener
  mode,         \* which OAuth handlers the deployment runs (fixed)
  pendingStates,\* oauthServer.ts: const pendingStates = new Map(...)
  userTokens,   \* oauthServer.ts: const userTokens = new Map(...)
  uuids,        \* randomUUID() results handed out so far
  authz,        \* authorize requests awaiting the developer token
  resp,         \* the response an OAuth handler has just written
  hist,         \* per state token: the authorize / callback steps so far
  manualUserToken, \* appleMusicAuth.ts: let musicUserToken ("" = undefined)
  continued,    \* the request() invocations that ran on past their getToken()
  apiResult     \* what a request() invocation has just done

\* the provider's state, and the request listener's
pvars == <<now, env, cached, inFlight, mints, calls, microtasks>>
rvars == <<sessionTokens, pendingToken, reqs>>
\* the OAuth handlers' state
ovars == <<mode, pendingStates, userTokens, uuids, authz, resp, hist>>
vars == <<now, env, cached, inFlight, mints, calls, microtasks,
          sessionTokens, pendingToken, reqs,
          mode, pendingStates, userTokens, uuids, authz, resp, hist,
          manualUserToken, continued, apiResult>>
\* the API client's state
avars == <<manualUserToken, continued, apiResult>>

(* ------------------------------ values --------------------------------- *)
\* A signed token: the mint that produced it (ES256 signatures are randomised,
\* so two mints never yield the same string) and its iat / exp claims.
NoToken == [mint |-> 0, iat |-> 0, exp |-> 0]
\* cached === undefined
NoCached == [token |-> NoToken, expiresAtEpoch |-> 0]
NoResult == [kind |-> "none", token |-> NoToken, err |-> "none"]
NoMint ==
  [state |-> "none", by |-> 0, callNow |-> 0, iat |-> 0, hasTTL |-> FALSE,
   requested |-> 0, ttl |-> 0, keyOK |-> FALSE, err |-> "none", token |-> NoToken,
   waiters |-> <<>>, cachedBefore |-> NoCached]
NoCall ==
  [pc |-> "idle", promise |-> 0, started |-> 0, hit |-> FALSE, result |-> NoResult,
   aNow |-> 0, aCached |-> NoCached, aPending |-> {}, aOpen |-> {}, aClosed |-> {}]

Max(a, b) == IF a >= b THEN a ELSE b
Min(a, b) == IF a <= b THEN a ELSE b

\* mutation of clampTTL: the floor is lost
clampTTL_NoFloor(ttlSeconds) == Min(ttlSeconds, SIX_MONTHS_SECONDS)

\* Math.max(60, Math.min(ttlSeconds, SIX_MONTHS_SECONDS))
clampTTL(ttlSeconds) == Max(MIN_TTL_SECONDS, Min(ttlSeconds, SIX_MONTHS_SECONDS))

\* mutation of TTLOrDefault: the minter falls back to one hour
TTLOrDefault_Hour(cfg, dflt) == IF cfg.hasTTL THEN cfg.ttl ELSE FALLBACK_TTL_SECONDS

\* config.tokenTTLSeconds ?? dflt
TTLOrDefault(cfg, dflt) == IF cfg.hasTTL THEN cfg.ttl ELSE dflt

\* mints that have started and not settled
PendingMints == {m \in MintIds : mints[m].state = "pending"}
\* mint attempts whose initiating getToken() call has not returned yet
OpenMints ==
  {m \in MintIds : mints[m].state # "none" /\ calls[mints[m].by].pc = "awaitOwn"}
\* mint attempts whose initiating getToken() call has returned or thrown
ClosedMints ==
  {m \in MintIds : mints[m].state # "none" /\ calls[mints[m].by].pc # "awaitOwn"}
StartedMints == {m \in MintIds : mints[m].state # "none"}
NextMintId == Cardinality(StartedMints) + 1

(* ------------------- createDeveloperTokenProvider ---------------------- *)
\* mutation of IsFresh: the margin test admits expiry == now + 300
IsFresh_Inclusive(c, t) ==
  c.token.mint # 0 /\ c.expiresAtEpoch - REFRESH_MARGIN_SECONDS >= t

\* cached && cached.expiresAtEpoch - 300 > now
IsFresh(c, t) ==
  c.token.mint # 0 /\ c.expiresAtEpoch - REFRESH_MARGIN_SECONDS > t

\* mutation of HasInFlight: the in-flight promise is never reused
HasInFlight_Never(f) == FALSE

\* if (inFlight)
HasInFlight(f) == f # 0

\* mutation of FinallyInFlight: the finally block does not clear the marker
FinallyInFlight_Kept(f) == f

\* finally { inFlight = undefined; }
FinallyInFlight(f) == 0

\* mutation of InFlightAfterStart: the IIFE's promise is not recorded
InFlightAfterStart_Lost(m) == 0

\* inFlight = (async () => {...})();
InFlightAfterStart(m) == m

\* mutation of Outcome: the rejection is swallowed and the caller gets no token
Outcome_Swallowed(m) ==
  IF mints[m].state = "fulfilled"
    THEN [kind |-> "token", token |-> mints[m].token, err |-> "none"]
    ELSE [kind |-> "token", token |-> NoToken, err |-> "none"]

\* return await inFlight: the promise's token, or its rejection rethrown
Outcome(m) ==
  IF mints[m].state = "fulfilled"
    THEN [kind |-> "token", token |-> mints[m].token, err |-> "none"]
    ELSE [kind |-> "error", token |-> NoToken, err |-> mints[m].err]

Job(k, c) == [kind |-> k, c |-> c]

\* what a getToken() call found on arrival (history, read by the properties)
Arrived(c) ==
  [calls[c] EXCEPT !.aNow = now, !.aCached = cached, !.aPending = PendingMints,
                   !.aOpen = OpenMints, !.aClosed = ClosedMints]

\* return cached.token;
CacheHit(c) ==
  /\ calls' = [calls EXCEPT ![c] =
       [Arrived(c) EXCEPT !.pc = "returned", !.hit = TRUE,
          !.result = [kind |-> "token", token |-> cached.token, err |-> "none"]]]
  /\ microtasks' = Tail(microtasks)
  /\ UNCHANGED <<cached, inFlight, mints>>

\* if (inFlight) return inFlight;  the caller's promise adopts the in-flight
\* one; when that one is already rejected its reaction is queued at once
Join(c) ==
  /\ calls' = [calls EXCEPT ![c] =
       [Arrived(c) EXCEPT !.pc = "awaitJoin", !.promise = inFlight]]
  /\ mints' = [mints EXCEPT ![inFlight].waiters = Append(@, c)]
  /\ microtasks' =
       IF mints[inFlight].state = "pending"
         THEN Tail(microtasks)
         ELSE Append(Tail(microtasks), Job("resume", c))
  /\ UNCHANGED <<cached, inFlight>>

\* the mint record of generateDeveloperToken(config) suspended at
\* await importPKCS8: ttl = clampTTL(config.tokenTTLSeconds ?? 86400),
\* now = Math.floor(Date.now() / 1000), exp = now + ttl
generateDeveloperToken(c, m) ==
  LET requested == TTLOrDefault(env, DEFAULT_TTL_SECONDS)
      ttl == clampTTL(requested)
  IN [NoMint EXCEPT !.state = "pending", !.by = c, !.callNow = now, !.iat = now,
        !.hasTTL = env.hasTTL, !.requested = requested, !.ttl = ttl,
        !.keyOK = (env.creds = "ok"),
        !.token = [mint |-> m, iat |-> now, exp |-> now + ttl],
        !.cachedBefore = cached]

\* getDeveloperConfigFromEnv() throws inside the IIFE: its promise is born
\* rejected
ConfigMissing(c, m) ==
  [NoMint EXCEPT !.state = "rejected", !.by = c, !.callNow = now, !.iat = now,
     !.err = "config", !.cachedBefore = cached]

\* inFlight = (async () => {...})();  then await inFlight
StartMint(c) ==
  LET m == NextMintId IN
  /\ m \in MintIds
  /\ mints' = [mints EXCEPT ![m] =
       IF env.creds = "missing" THEN ConfigMissing(c, m)
                                ELSE generateDeveloperToken(c, m)]
  /\ inFlight' = InFlightAfterStart(m)
  /\ calls' = [calls EXCEPT ![c] =
       [Arrived(c) EXCEPT !.pc = "awaitOwn", !.promise = m, !.started = m]]
  /\ microtasks' =
       IF env.creds = "missing"
         THEN Append(Tail(microtasks), Job("resume", c))
         ELSE Tail(microtasks)
  /\ UNCHANGED cached

\* the synchronous part of getToken(), run as the microtask at the head of
\* the queue
getToken(c) ==
  /\ microtasks # <<>>
  /\ Head(microtasks) = Job("call", c)
  /\ IF IsFresh(cached, now) THEN CacheHit(c)
     ELSE IF HasInFlight(inFlight) THEN Join(c)
     ELSE StartMint(c)
  /\ UNCHANGED <<now, env>>
  /\ UNCHANGED <<rvars, ovars, avars>>

SeqOfJobs(k, cs) == [i \in 1..Len(cs) |-> Job(k, cs[i])]

\* const exp = typeof decoded.exp === "number" ? decoded.exp
\*                  : now + clampTTL(config.tokenTTLSeconds ?? 3600)
\* (a token signed by generateDeveloperToken always carries the numeric exp
\* it was given)
CachedExpiry(m) ==
  IF mints[m].token.mint # 0
    THEN mints[m].token.exp
    ELSE mints[m].callNow +
         clampTTL(IF mints[m].hasTTL THEN mints[m].requested ELSE FALLBACK_TTL_SECONDS)

\* the crypto job of mint m finishes and the IIFE resumes: on success
\*   cached = { token, expiresAtEpoch: exp }; inFlight = undefined; return token;
\* on a key importPKCS8 / sign rejects, the IIFE's promise rejects and neither
\* assignment runs.  The promise's reactions are queued in the order they were
\* registered: the initiating call's await first, then the joined callers.
MintSettle(m) ==
  /\ microtasks = <<>>
  /\ mints[m].state = "pending"
  /\ IF mints[m].keyOK
       THEN /\ mints' = [mints EXCEPT ![m].state = "fulfilled"]
            /\ cached' = [token |-> mints[m].token, expiresAtEpoch |-> CachedExpiry(m)]
            /\ inFlight' = 0
       ELSE /\ mints' = [mints EXCEPT ![m].state = "rejected", ![m].err = "sign"]
            /\ UNCHANGED <<cached, inFlight>>
  /\ microtasks' = <<Job("resume", mints[m].by)>> \o SeqOfJobs("resume", mints[m].waiters)
  /\ UNCHANGED <<now, env, calls>>
  /\ UNCHANGED <<rvars, ovars, avars>>

\* the continuation of a caller's await: the initiating call runs its finally
\* block and returns or rethrows; a joined caller receives the same outcome
Resume(c) ==
  /\ microtasks # <<>>
  /\ Head(microtasks) = Job("resume", c)
  /\ calls[c].pc \in {"awaitOwn", "awaitJoin"}
  /\ LET r == Outcome(calls[c].promise) IN
     calls' = [calls EXCEPT ![c].result = r,
                            ![c].pc = IF r.kind = "token" THEN "returned" ELSE "threw"]
  /\ inFlight' = IF calls[c].pc = "awaitOwn" THEN FinallyInFlight(inFlight) ELSE inFlight
  /\ microtasks' = Tail(microtasks)
  /\ UNCHANGED <<now, env, cached, mints>>
  /\ UNCHANGED <<rvars, ovars, avars>>

(* ------------------------------- host ---------------------------------- *)
IdleCalls == {c \in Calls : calls[c].pc = "idle"}
FirstIdle == NumCalls - Cardinality(IdleCalls) + 1

\* one task of the host starts n handlers that each call getToken() (one HTTP
\* request, or the n tool calls of one JSON-RPC batch)
SubmitCalls(n) ==
  /\ microtasks = <<>>
  /\ FirstIdle + n - 1 <= NumCalls
  /\ calls' = [c \in Calls |->
       IF c \in FirstIdle..(FirstIdle + n - 1)
         THEN [calls[c] EXCEPT !.pc = "queued"] ELSE calls[c]]
  /\ microtasks' = [i \in 1..n |-> Job("call", FirstIdle + i - 1)]
  /\ UNCHANGED <<now, env, cached, inFlight, mints>>
  /\ UNCHANGED <<rvars, ovars, avars>>

\* the clock advances
Tick ==
  /\ now < MaxNow
  /\ now' = now + 1
  /\ UNCHANGED <<env, cached, inFlight, mints, calls, microtasks>>
  /\ UNCHANGED <<rvars, ovars, avars>>

\* the credentials in process.env change between two tasks
EnvChange ==
  /\ microtasks = <<>>
  /\ \E s \in CredStates \ {env.creds} : env' = [env EXCEPT !.creds = s]
  /\ UNCHANGED <<now, cached, inFlight, mints, calls, microtasks>>
  /\ UNCHANGED <<rvars, ovars, avars>>

ProviderInit ==
  /\ now = 0
  /\ env \in [creds : CredStates, hasTTL : {TRUE}, ttl : TTLChoices]
              \cup [creds : CredStates, hasTTL : {FALSE}, ttl : {0}]
  /\ cached = NoCached
  /\ inFlight = 0
  /\ mints = [m \in MintIds |-> NoMint]
  /\ calls = [c \in Calls |-> NoCall]
  /\ microtasks = <<>>

ProviderNext ==
  \/ \E n \in 1..MaxBatch : SubmitCalls(n)
  \/ \E c \in Calls : getToken(c)
  \/ \E m \in MintIds : MintSettle(m)
  \/ \E c \in Calls : Resume(c)
  \/ Tick
  \/ EnvChange

(* --------------- client.ts: request-time credential resolution --------- *)
\* request slots served concurrently by the HTTP listener
NumReqs == 2

Reqs == 1..NumReqs
Tokens == {"U1", "U2"}
SessionIds == {"S1", "S2"}

\* the header names getBearerFromHeaders tries, in its order (Node delivers
\* header names in lower case)
BearerHeaderNames == <<"authorization", "x-mcp-proxy-auth", "x-mcp-auth", "mcp-authorization">>
HeaderNames == {BearerHeaderNames[i] : i \in 1..Len(BearerHeaderNames)}

\* A header value is the sequence of words authHeader.split(" ") yields;
\* <<>> is an absent (or empty) header.
NoHeaders == [n \in HeaderNames |-> <<>>]
WithHeader(n, v) == [NoHeaders EXCEPT ![n] = v]
\* Authorization values that carry a bearer credential, and values that are
\* present but are no "Bearer <token>" (other scheme, no token)
BearerValues == {<<"Bearer", "U1">>, <<"Bearer", "U2">>}
OtherAuthValues == {<<"bearer", "U1">>, <<"Basic", "U1">>, <<"Bearer">>}
\* the credential under one of the other spellings, alone or beside an
\* Authorization header
AltHeaderSets ==
  {WithHeader(n, <<"Bearer", "U1">>) : n \in HeaderNames \ {"authorization"}}
    \cup {[WithHeader("authorization", <<"Bearer", "U2">>) EXCEPT
             !["x-mcp-auth"] = <<"Bearer", "U1">>]}

\* the requests the listener is offered on the tool transport's routes: their
\* method, whether rawPath starts with /mcp, the headers, mcp-session-id
RequestInputs ==
  [method : {"POST"}, mcp : {TRUE},
   headers : {NoHeaders} \cup {WithHeader("authorization", v) : v \in BearerValues},
   sid : SessionIds \cup {""}]
    \cup [method : {"POST"}, mcp : {TRUE},
          headers : {WithHeader("authorization", v) : v \in OtherAuthValues}
                      \cup AltHeaderSets,
          sid : {"S1"}]
    \cup [method : {"GET", "OPTIONS"}, mcp : {TRUE},
          headers : {NoHeaders, WithHeader("authorization", <<"Bearer", "U2">>)},
          sid : {"S1"}]
    \cup [method : {"POST"}, mcp : {FALSE},
          headers : {NoHeaders, WithHeader("authorization", <<"Bearer", "U1">>)},
          sid : {"S1"}]

NoReq ==
  [pc |-> "idle", method |-> "POST", mcp |-> TRUE, headers |-> NoHeaders, sid |-> "",
   aBound |-> "", bound |-> "", userToken |-> "", challenge |-> ""]

\* scheme.toLowerCase()
ToLowerCase(w) ==
  CASE w \in {"Bearer", "bearer", "BEARER"} -> "bearer"
    [] w \in {"Basic", "basic"} -> "basic"
    [] OTHER -> w

\* mutation of parseBearerToken: the scheme is compared case-sensitively
parseBearerToken_CaseSensitive(authHeader) ==
  IF authHeader = <<>> THEN ""
  ELSE IF Len(authHeader) < 2 \/ authHeader[1] = "" \/ authHeader[2] = "" THEN ""
  ELSE IF authHeader[1] # "Bearer" THEN ""
  ELSE authHeader[2]

\* parseBearerToken: "" stands for undefined
parseBearerToken(authHeader) ==
  IF authHeader = <<>> THEN ""
  ELSE IF Len(authHeader) < 2 \/ authHeader[1] = "" \/ authHeader[2] = "" THEN ""
  ELSE IF ToLowerCase(authHeader[1]) # "bearer" THEN ""
  ELSE authHeader[2]

\* getBearerFromHeaders: the first candidate header that parses as a bearer
RECURSIVE FirstBearer(_, _)
FirstBearer(headers, i) ==
  IF i > Len(BearerHeaderNames) THEN ""
  ELSE IF parseBearerToken(headers[BearerHeaderNames[i]]) # ""
    THEN parseBearerToken(headers[BearerHeaderNames[i]])
  ELSE FirstBearer(headers, i + 1)

getBearerFromHeaders(headers) == FirstBearer(headers, 1)

\* sessionTokens.get(sessionId), "" when the session has no entry
SessionGet(sid) == IF sid \in SessionIds THEN sessionTokens[sid] ELSE ""

\* mutation of BindSessionTokens: the credential is bound to every session id
BindSessionTokens_AllSessions(authHeader, sid) ==
  IF authHeader # <<>>
    THEN IF parseBearerToken(authHeader) # "" /\ sid # ""
           THEN [s \in SessionIds |-> parseBearerToken(authHeader)]
           ELSE sessionTokens
    ELSE IF sid # "" /\ pendingToken # ""
           THEN [sessionTokens EXCEPT ![sid] = pendingToken]
           ELSE sessionTokens

\* mutation of BindSessionTokens: a session id that is already bound keeps
\* its earlier credential
BindSessionTokens_KeepFirst(authHeader, sid) ==
  IF authHeader # <<>>
    THEN IF parseBearerToken(authHeader) # "" /\ sid # "" /\ sessionTokens[sid] = ""
           THEN [sessionTokens EXCEPT ![sid] = parseBearerToken(authHeader)]
           ELSE sessionTokens
    ELSE IF sid # "" /\ pendingToken # ""
           THEN [sessionTokens EXCEPT ![sid] = pendingToken]
           ELSE sessionTokens

\* main, lines 716-739: the Map and the pending slot after the bearer /
\* session binding of a request with the given Authorization header and
\* mcp-session-id
BindSessionTokens(authHeader, sid) ==
  IF authHeader # <<>>
    THEN IF parseBearerToken(authHeader) # "" /\ sid # ""
           THEN [sessionTokens EXCEPT ![sid] = parseBearerToken(authHeader)]
           ELSE sessionTokens
    ELSE IF sid # "" /\ pendingToken # ""
           THEN [sessionTokens EXCEPT ![sid] = pendingToken]
           ELSE sessionTokens

BindPendingToken(authHeader) ==
  IF authHeader # <<>> /\ parseBearerToken(authHeader) # ""
    THEN parseBearerToken(authHeader)
    ELSE pendingToken

\* the resource_metadata of the WWW-Authenticate challenge, below the base URL
ProtectedResourceMetadata == "/.well-known/oauth-protected-resource/mcp"

\* mutation of Unauthorized: the gate stops POST requests only
Unauthorized_PostOnly(in) ==
  in.mcp /\ in.method = "POST" /\ in.headers["authorization"] = <<>>

\* mutation of Unauthorized: a credential under any of the header names passes
Unauthorized_NoBearer(in) == in.mcp /\ getBearerFromHeaders(in.headers) = ""

\* rawPath.startsWith("/mcp") && !req.headers.authorization
Unauthorized(in) == in.mcp /\ in.headers["authorization"] = <<>>

\* a request whose response is decided; its record is kept for one step, for
\* the properties to read, before any other request is served
Answered(r) == reqs[r].pc \in {"401", "404", "204", "tool"}

\* The request listener up to its first await, for a request that none of the
\* OAuth / discovery routes served: the 401 gate, the 404, the OPTIONS reply,
\* the bearer / session binding, then the suspension reading the POST body
\* (a GET goes straight to transport.handleRequest).
ReceiveRequest(r, in) ==
  /\ reqs[r].pc = "idle"
  /\ \A q \in Reqs : q < r => reqs[q].pc # "idle"
  /\ \A q \in Reqs : ~Answered(q)
  /\ LET authHeader == in.headers["authorization"]
         rec == [NoReq EXCEPT !.method = in.method, !.mcp = in.mcp,
                   !.headers = in.headers, !.sid = in.sid,
                   !.aBound = SessionGet(in.sid)]
     IN
     IF Unauthorized(in) THEN
       /\ reqs' = [reqs EXCEPT ![r] = [rec EXCEPT !.pc = "401",
                                      !.challenge = ProtectedResourceMetadata]]
       /\ UNCHANGED <<sessionTokens, pendingToken>>
     ELSE IF ~in.mcp THEN
       /\ reqs' = [reqs EXCEPT ![r] = [rec EXCEPT !.pc = "404"]]
       /\ UNCHANGED <<sessionTokens, pendingToken>>
     ELSE IF in.method = "OPTIONS" THEN
       /\ reqs' = [reqs EXCEPT ![r] = [rec EXCEPT !.pc = "204"]]
       /\ UNCHANGED <<sessionTokens, pendingToken>>
     ELSE
       /\ sessionTokens' = BindSessionTokens(authHeader, in.sid)
       /\ pendingToken' = BindPendingToken(authHeader)
       /\ reqs' = [reqs EXCEPT ![r] =
            [rec EXCEPT
               !.pc = IF in.method = "POST" THEN "body" ELSE "transport",
               !.bound = IF in.sid # ""
                           THEN BindSessionTokens(authHeader, in.sid)[in.sid] ELSE ""]]
  /\ UNCHANGED <<pvars, ovars, avars>>

\* resolveSessionId(extra): the transport's session id, which the transport
\* has matched against the request's mcp-session-id header, else the header
resolveSessionId(r) == reqs[r].sid

\* const userToken = sessionId ? sessionTokens.get(sessionId) : pendingToken;
ResolveUserToken(sessionId) ==
  IF sessionId # "" THEN SessionGet(sessionId) ELSE pendingToken

\* The body has been read and transport.handleRequest dispatches a library
\* tool call: the handler resolves the user credential and passes it to the
\* API client (api.listLibrarySongs(args, userToken) and its siblings).
InvokeLibraryTool(r) ==
  /\ reqs[r].pc = "body"
  /\ \A q \in Reqs : ~Answered(q)
  /\ reqs' = [reqs EXCEPT ![r].pc = "tool",
                          ![r].userToken = ResolveUserToken(resolveSessionId(r))]
  /\ UNCHANGED <<sessionTokens, pendingToken>>
  /\ UNCHANGED <<pvars, ovars, avars>>

\* the response has been written (or the request carried no library tool
\* call); the slot serves the next request
FinishRequest(r) ==
  /\ reqs[r].pc # "idle"
  /\ reqs' = [reqs EXCEPT ![r] = NoReq]
  /\ UNCHANGED <<sessionTokens, pendingToken>>
  /\ UNCHANGED <<pvars, ovars, avars>>

ResolverInit ==
  /\ sessionTokens = [s \in SessionIds |-> ""]
  /\ pendingToken = ""
  /\ reqs = [r \in Reqs |-> NoReq]

ResolverNext ==
  \/ \E r \in Reqs : \E in \in RequestInputs : ReceiveRequest(r, in)
  \/ \E r \in Reqs : InvokeLibraryTool(r)
  \/ \E r \in Reqs : FinishRequest(r)

(* ------ OAuth handshake: oauthServer.ts, oauthToken.js and client.ts ---- *)
\* times the clock is advanced in one behaviour of the handshake
MaxJumps == 2
\* randomUUID() calls in one behaviour
MaxUuids == 2
\* authorize requests that await the developer token at the same time
MaxAuthz == 2

\* Date.now() is taken in whole seconds: 600000 ms, 3600 * 24 * 90 s
STATE_TTL_SECONDS == 600
USER_TOKEN_TTL_SECONDS == 7776000
EXPIRES_IN_SECONDS == 7776000

\* "session": the handlers of oauthServer.ts and oauthToken.js, which keep
\* pendingStates and userTokens; "stateless": the handlers inlined in client.ts
Modes == {"session", "stateless"}
StateTokens == {"st1", "st2"}
\* redirect_uri values: two URLs and a string that is no URL
RedirectUris == {"https://a/cb", "https://b/cb", "nourl"}
GrantTypes == {"authorization_code", "refresh_token", ""}

\* GET /oauth/authorize?redirect_uri=..&state=.. ("" = parameter absent)
AuthorizeInputs ==
  [redirect : {"https://a/cb", "nourl"}, state : StateTokens]
    \cup {[redirect |-> "", state |-> "st1"], [redirect |-> "https://a/cb", state |-> ""]}
\* POST /oauth/callback: the page of client.ts posts redirect_uri beside the
\* credential and the state, the page of oauthServer.ts does not
CallbackInputs ==
  [token : Tokens, state : StateTokens, redirect : {"", "https://b/cb"}]
    \cup [token : {"U1"}, state : {"st1"}, redirect : {"https://a/cb", "nourl"}]
    \cup {[token |-> "", state |-> "st1", redirect |-> "https://a/cb"],
          [token |-> "U1", state |-> "", redirect |-> "https://a/cb"]}
\* POST /oauth/token
TokenInputs ==
  [grant : {"authorization_code"}, code : Tokens \cup {""}]
    \cup [grant : {"refresh_token", ""}, code : {"U1"}]
Uuids == 1..MaxUuids

\* new URL(u) returns (it throws a TypeError on a string that is no absolute URL)
ValidURL(u) == u \in {"https://a/cb", "https://b/cb"}

\* the clock moves by a second or by the lifetime of a pending state, at
\* most MaxJumps times
TimeJumps == {1, STATE_TTL_SECONDS}
ClockPoints ==
  {a + b * STATE_TTL_SECONDS : a \in 0..MaxJumps, b \in 0..MaxJumps}
ReachablePoints ==
  {t \in ClockPoints :
     \E a \in 0..MaxJumps : \E b \in 0..(MaxJumps - a) : t = a + b * STATE_TTL_SECONDS}

\* a string the server hands out: a randomUUID() result or a user credential
NoValue == [uuid |-> 0, cred |-> ""]
UuidValue(n) == [uuid |-> n, cred |-> ""]
CredValue(t) == [uuid |-> 0, cred |-> t]

\* pendingStates.get(state) === undefined, userTokens.get(id) === undefined
NoEntry == [present |-> FALSE, redirectUri |-> "", expiresAt |-> 0]
NoRecord == [present |-> FALSE, token |-> "", hasExpiry |-> FALSE, expiresAt |-> 0]
\* the parameters of a request ("" = absent) and a response not yet written
\* the optional expiresIn argument of storeUserToken: omitted, or a number
NoTTL == [given |-> FALSE, value |-> 0]
TTL(n) == [given |-> TRUE, value |-> n]
NoParams ==
  [redirect |-> "", state |-> "", token |-> "", grant |-> "", code |-> "",
   sessionId |-> 0, ttl |-> NoTTL]
NoResp ==
  [handler |-> "none", status |-> 0, req |-> NoParams, location |-> "",
   code |-> NoValue, state |-> "", accessToken |-> NoValue, tokenType |-> "",
   expiresIn |-> 0, error |-> "", returned |-> ""]
NoHist == [status |-> "never", redirectUri |-> "", at |-> 0]
UsedHist == [status |-> "used", redirectUri |-> "", at |-> 0]

PendingGet(state) == IF state \in StateTokens THEN pendingStates[state] ELSE NoEntry

\* the test JavaScript makes of an optional number: undefined and 0 are falsy
Truthy(expiresIn) == expiresIn.given /\ expiresIn.value # 0

\* storeUserToken(sessionId, token, expiresIn)
storeUserToken(sessionId, token, expiresIn) ==
  [userTokens EXCEPT ![sessionId] =
     [present |-> TRUE, token |-> token, hasExpiry |-> Truthy(expiresIn),
      expiresAt |-> IF Truthy(expiresIn) THEN now + expiresIn.value ELSE 0]]

\* mutation of Expired: a record without expiry counts as expired
Expired_NoExpiryToo(stored) ==
  ~stored.hasExpiry \/ (stored.expiresAt # 0 /\ stored.expiresAt < now)

\* stored.expiresAt && stored.expiresAt < Date.now()
Expired(stored) ==
  stored.hasExpiry /\ stored.expiresAt # 0 /\ stored.expiresAt < now

\* session ids a caller can hold: those randomUUID() has produced; 0 stands
\* for an absent (or empty) sessionId argument
UserTokensGet(sessionId) ==
  IF sessionId \in Uuids THEN userTokens[sessionId] ELSE NoRecord

\* getStoredUserToken(sessionId): the value returned ("" = undefined)
getStoredUserToken(sessionId) ==
  IF sessionId = 0 THEN ""
  ELSE IF ~UserTokensGet(sessionId).present THEN ""
  ELSE IF Expired(UserTokensGet(sessionId)) THEN ""
  ELSE UserTokensGet(sessionId).token

\* a call of getStoredUserToken, with the eviction it makes
StoreGet(sessionId) ==
  /\ resp = NoResp
  /\ resp' = [NoResp EXCEPT !.handler = "get", !.req = [NoParams EXCEPT !.sessionId = sessionId],
                            !.returned = getStoredUserToken(sessionId)]
  /\ userTokens' =
       IF sessionId # 0 /\ UserTokensGet(sessionId).present /\ Expired(UserTokensGet(sessionId))
         THEN [userTokens EXCEPT ![sessionId] = NoRecord]
         ELSE userTokens
  /\ UNCHANGED <<mode, pendingStates, uuids, authz, hist>>
  /\ UNCHANGED <<pvars, rvars, avars>>

\* a call of storeUserToken by any caller, for a session id handed out
\* before or for a new one
StorePut(sessionId, token, expiresIn) ==
  /\ resp = NoResp
  /\ sessionId \in Uuids /\ sessionId <= uuids + 1
  /\ uuids' = IF sessionId > uuids THEN sessionId ELSE uuids
  /\ userTokens' = storeUserToken(sessionId, token, expiresIn)
  /\ resp' = [NoResp EXCEPT !.handler = "put",
                !.req = [NoParams EXCEPT !.sessionId = sessionId, !.token = token,
                                         !.ttl = expiresIn]]
  /\ UNCHANGED <<mode, pendingStates, authz, hist>>
  /\ UNCHANGED <<pvars, rvars, avars>>

\* the provider of client.ts, created once at module load
SharedProvider == "getDevToken"

\* mutation of ProviderFor: oauthServer.ts uses one provider for all requests
ProviderFor_Shared(state) == SharedProvider

\* the developer-token provider the authorize request for a state calls:
\* oauthServer.ts constructs one in the handler (const getDevToken =
\* createDeveloperTokenProvider()), named here by the request's state;
\* client.ts calls the module's getDevToken
ProviderFor(state) == IF mode = "session" THEN state ELSE SharedProvider

\* a provider with no fresh token and no mint in flight starts a mint when
\* called; one just constructed has cached === undefined, inFlight === undefined
StartsMint(c, f) == ~IsFresh(c, now) /\ ~HasInFlight(f)

\* the providers that have a mint in flight on behalf of an authorize request
\* awaiting its developer token: single-flight allows each provider one
MintingProviders == {ProviderFor(a) : a \in authz}

\* mutation of AuthorizeParamsMissing: redirect_uri is not required
AuthorizeParamsMissing_StateOnly(redirectUri, state) == state = ""

\* if (!redirectUri || !state)
AuthorizeParamsMissing(redirectUri, state) == redirectUri = "" \/ state = ""

\* handleOAuthAuthorize up to its await: the parameter check, the pending-state
\* entry (oauthServer.ts only), then the request for the developer token
handleOAuthAuthorize(redirectUri, state) ==
  /\ resp = NoResp
  /\ IF AuthorizeParamsMissing(redirectUri, state) THEN
       /\ resp' = [NoResp EXCEPT !.handler = "authorize", !.status = 400,
                     !.req = [NoParams EXCEPT !.redirect = redirectUri, !.state = state]]
       /\ UNCHANGED <<pendingStates, authz, hist>>
     ELSE
       /\ Cardinality(authz) < MaxAuthz
       /\ state \notin authz
       /\ pendingStates' =
            IF mode = "session"
              THEN [pendingStates EXCEPT ![state] =
                      [present |-> TRUE, redirectUri |-> redirectUri,
                       expiresAt |-> now + STATE_TTL_SECONDS]]
              ELSE pendingStates
       /\ authz' = authz \cup {state}
       /\ hist' = [hist EXCEPT ![state] =
                     [status |-> "open", redirectUri |-> redirectUri, at |-> now]]
       /\ UNCHANGED resp
  /\ UNCHANGED <<mode, userTokens, uuids>>
  /\ UNCHANGED <<now, env, cached, inFlight, mints, calls, microtasks>>
  /\ UNCHANGED <<rvars, avars>>

\* handleOAuthAuthorize after its await: the developer token arrived and the
\* page is served (minted), or minting failed and the exception leaves the
\* handler (client.ts answers 500 in the route's catch)
AuthorizeResume(a, minted) ==
  /\ resp = NoResp
  /\ a \in authz
  /\ authz' = authz \ {a}
  /\ resp' = [NoResp EXCEPT !.handler = "authorize-resume",
                !.status = IF minted THEN 200 ELSE 500,
                !.error = IF minted THEN "" ELSE "exception",
                !.req = [NoParams EXCEPT !.state = a]]
  /\ UNCHANGED <<mode, pendingStates, userTokens, uuids, hist>>
  /\ UNCHANGED <<now, env, cached, inFlight, mints, calls, microtasks>>
  /\ UNCHANGED <<rvars, avars>>

\* the exchange code the callback attaches to the redirect: both handlers use
\* the posted credential (oauthServer.ts generates sessionId but sends
\* accessToken = musicUserToken)
CallbackCode(musicUserToken, sessionId) == CredValue(musicUserToken)

\* new URL(target), searchParams.set("code" / "state"), writeHead(302)
RedirectTo(base, target, code, state) ==
  IF ValidURL(target)
    THEN [base EXCEPT !.status = 302, !.location = target, !.code = code, !.state = state]
    ELSE [base EXCEPT !.status = 500, !.error = "exception"]

\* handleOAuthCallback, of oauthServer.ts or of client.ts
handleOAuthCallback(musicUserToken, state, redirectUri) ==
  /\ resp = NoResp
  /\ LET base == [NoResp EXCEPT !.handler = "callback",
                    !.req = [NoParams EXCEPT !.token = musicUserToken, !.state = state,
                                             !.redirect = redirectUri]]
         stateData == PendingGet(state)
         sessionId == uuids + 1
     IN
     IF mode = "session" THEN
       IF musicUserToken = "" \/ state = "" \/ ~stateData.present THEN
         /\ resp' = [base EXCEPT !.status = 400]
         /\ UNCHANGED <<pendingStates, userTokens, uuids, hist>>
       ELSE
         /\ uuids < MaxUuids
         /\ pendingStates' = [pendingStates EXCEPT ![state] = NoEntry]
         /\ uuids' = sessionId
         /\ userTokens' = storeUserToken(sessionId, musicUserToken, NoTTL)
         /\ resp' = RedirectTo(base, stateData.redirectUri,
                               CallbackCode(musicUserToken, sessionId), state)
         /\ hist' = IF ValidURL(stateData.redirectUri)
                      THEN [hist EXCEPT ![state] = UsedHist] ELSE hist
     ELSE
       IF musicUserToken = "" \/ state = "" \/ redirectUri = "" THEN
         /\ resp' = [base EXCEPT !.status = 400]
         /\ UNCHANGED <<pendingStates, userTokens, uuids, hist>>
       ELSE
         /\ resp' = RedirectTo(base, redirectUri, CallbackCode(musicUserToken, 0), state)
         /\ hist' = IF ValidURL(redirectUri)
                      THEN [hist EXCEPT ![state] = UsedHist] ELSE hist
         /\ UNCHANGED <<pendingStates, userTokens, uuids>>
  /\ UNCHANGED <<mode, authz>>
  /\ UNCHANGED <<now, env, cached, inFlight, mints, calls, microtasks>>
  /\ UNCHANGED <<rvars, avars>>

\* mutation of GrantAccepted: the code must be a credential some callback
\* or exchange has stored
GrantAccepted_KnownCode(grantType, code) ==
  /\ grantType = "authorization_code"
  /\ code # ""
  /\ mode = "session" => \E u \in Uuids : userTokens[u].present /\ userTokens[u].token = code

\* mutation of GrantAccepted: any grant type passes
GrantAccepted_AnyGrant(grantType, code) == code # ""

\* !(grantType !== "authorization_code" || !code)
GrantAccepted(grantType, code) == grantType = "authorization_code" /\ code # ""

\* mutation of IssuedAccessToken: the code is returned in both modes
IssuedAccessToken_Code(code, uuid) == CredValue(code)

\* access_token: randomUUID() in oauthToken.js, the code itself in client.ts
IssuedAccessToken(code, uuid) ==
  IF mode = "session" THEN UuidValue(uuid) ELSE CredValue(code)

\* handleOAuthToken, of oauthToken.js or of client.ts
handleOAuthToken(grantType, code) ==
  /\ resp = NoResp
  /\ LET base == [NoResp EXCEPT !.handler = "token",
                    !.req = [NoParams EXCEPT !.grant = grantType, !.code = code]]
         sessionId == uuids + 1
         ok == [base EXCEPT !.status = 200,
                  !.accessToken = IssuedAccessToken(code, sessionId),
                  !.tokenType = "Bearer", !.expiresIn = EXPIRES_IN_SECONDS]
     IN
     IF ~GrantAccepted(grantType, code) THEN
       /\ resp' = [base EXCEPT !.status = 400, !.error = "invalid_request"]
       /\ UNCHANGED <<userTokens, uuids>>
     ELSE IF mode = "session" THEN
       /\ uuids < MaxUuids
       /\ uuids' = sessionId
       /\ userTokens' = storeUserToken(sessionId, code, TTL(USER_TOKEN_TTL_SECONDS))
       /\ resp' = ok
     ELSE
       /\ resp' = ok
       /\ UNCHANGED <<userTokens, uuids>>
  /\ UNCHANGED <<mode, pendingStates, authz, hist>>
  /\ UNCHANGED <<now, env, cached, inFlight, mints, calls, microtasks>>
  /\ UNCHANGED <<rvars, avars>>

\* mutation of SweepExpired: an entry is swept from the instant of its expiry
SweepExpired_AtExpiry(data) == data.present /\ data.expiresAt <= now

\* if (data.expiresAt < now), for an entry of the Map
SweepExpired(data) == data.present /\ data.expiresAt < now

\* mutation of SweepPendingStates: the timer fires and removes nothing
SweepPendingStates_Idle ==
  /\ mode = "session"
  /\ resp = NoResp
  /\ UNCHANGED vars

\* the setInterval callback of oauthServer.ts
SweepPendingStates ==
  /\ mode = "session"
  /\ resp = NoResp
  /\ pendingStates' =
       [st \in StateTokens |->
          IF SweepExpired(pendingStates[st]) THEN NoEntry ELSE pendingStates[st]]
  /\ UNCHANGED <<mode, userTokens, uuids, authz, resp, hist>>
  /\ UNCHANGED <<now, env, cached, inFlight, mints, calls, microtasks>>
  /\ UNCHANGED <<rvars, avars>>

\* time passes between two requests
TimePasses ==
  /\ resp = NoResp
  /\ \E d \in TimeJumps :
       /\ now + d \in ReachablePoints
       /\ now' = now + d
  /\ UNCHANGED <<env, cached, inFlight, mints, calls, microtasks>>
  /\ UNCHANGED <<rvars, ovars, avars>>

\* the response has gone out; the next request is served
ResponseSent ==
  /\ resp # NoResp
  /\ resp' = NoResp
  /\ UNCHANGED <<mode, pendingStates, userTokens, uuids, authz, hist>>
  /\ UNCHANGED <<pvars, rvars, avars>>

OAuthInit ==
  /\ mode \in Modes
  /\ pendingStates = [st \in StateTokens |-> NoEntry]
  /\ userTokens = [u \in Uuids |-> NoRecord]
  /\ uuids = 0
  /\ authz = {}
  /\ resp = NoResp
  /\ hist = [st \in StateTokens |-> NoHist]

\* the authorize / callback handshake
HandshakeNext ==
  \/ \E in \in AuthorizeInputs : handleOAuthAuthorize(in.redirect, in.state)
  \/ \E a \in authz : \E minted \in BOOLEAN : AuthorizeResume(a, minted)
  \/ \E in \in CallbackInputs : handleOAuthCallback(in.token, in.state, in.redirect)
  \/ SweepPendingStates
  \/ TimePasses
  \/ ResponseSent

\* the token endpoint
ExchangeNext ==
  \/ \E in \in TokenInputs : handleOAuthToken(in.grant, in.code)
  \/ TimePasses
  \/ ResponseSent

\* the handshake of oauthServer.ts, whose page posts the credential and the
\* state alone
SweepNext ==
  \/ \E in \in AuthorizeInputs : handleOAuthAuthorize(in.redirect, in.state)
  \/ \E a \in authz : \E minted \in BOOLEAN : AuthorizeResume(a, minted)
  \/ \E in \in {c \in CallbackInputs : c.redirect = "" /\ c.token = "U1"} :
       handleOAuthCallback(in.token, in.state, in.redirect)
  \/ SweepPendingStates
  \/ TimePasses
  \/ ResponseSent

\* the three endpoints of the handshake, their requests following one another
\* within one second
EndpointsNext ==
  \/ \E in \in AuthorizeInputs : handleOAuthAuthorize(in.redirect, in.state)
  \/ \E a \in authz : \E minted \in BOOLEAN : AuthorizeResume(a, minted)
  \/ \E in \in CallbackInputs : handleOAuthCallback(in.token, in.state, in.redirect)
  \/ \E in \in TokenInputs : handleOAuthToken(in.grant, in.code)
  \/ ResponseSent

\* lifetimes a caller passes to storeUserToken
TTLInputs == {NoTTL} \cup {TTL(n) : n \in {0, 1, STATE_TTL_SECONDS}}

\* the user-credential store under its two exported functions
StoreNext ==
  \/ \E u \in Uuids : \E t \in Tokens : \E e \in TTLInputs : StorePut(u, t, e)
  \/ \E u \in Uuids \cup {0} : StoreGet(u)
  \/ TimePasses
  \/ ResponseSent

OAuthNext == HandshakeNext \/ ExchangeNext \/ StoreNext

(* ------------------- AppleMusicAPI.request (api.ts) -------------------- *)
\* headers every upstream request has, and the one a user-scoped request adds
BaseHeaders == {"Authorization", "Content-Type"}
UserHeader == "Music-User-Token"

\* no request() invocation has just run
NoApiResult ==
  [call |-> 0, requiresUserToken |-> FALSE, userTokenOverride |-> "",
   outcome |-> "none", error |-> "none", headerNames |-> {},
   authorization |-> NoToken, userTokenHeader |-> ""]

\* const userToken = userTokenOverride || this.getUserToken(), where
\* getUserToken is getMusicUserToken (client.ts 42-47)
ResolvedUserToken_ManualFirst(userTokenOverride) ==
  IF manualUserToken # "" THEN manualUserToken ELSE userTokenOverride

ResolvedUserToken(userTokenOverride) ==
  IF userTokenOverride # "" THEN userTokenOverride ELSE manualUserToken

\* mutation of UserCheckFails: the check is skipped
UserCheckFails_Never(requiresUserToken, userTokenOverride) == FALSE

\* if (requiresUserToken) { ... if (!userToken) throw ... }
UserCheckFails(requiresUserToken, userTokenOverride) ==
  requiresUserToken /\ ResolvedUserToken(userTokenOverride) = ""

\* mutation of RequestError: the user credential is checked before the
\* developer token is awaited
RequestError_UserCheckFirst(c, requiresUserToken, userTokenOverride) ==
  IF UserCheckFails(requiresUserToken, userTokenOverride) THEN "missing-user-token"
  ELSE IF calls[c].pc = "threw" THEN calls[c].result.err
  ELSE "none"

\* the error request() throws before it calls fetch, "none" when it reaches
\* fetch: await this.getDeveloperToken() rethrows the provider's rejection,
\* and only then comes the test of the user credential
RequestError(c, requiresUserToken, userTokenOverride) ==
  IF calls[c].pc = "threw" THEN calls[c].result.err
  ELSE IF UserCheckFails(requiresUserToken, userTokenOverride) THEN "missing-user-token"
  ELSE "none"

\* request() from the return of await this.getDeveloperToken() on, for the
\* invocation whose getToken() call is c: the provider's failure propagates, or
\* the headers are built, the user credential is checked and fetch is called;
\* upstreamOk is res.ok of the response
ApiContinue(c, requiresUserToken, userTokenOverride, upstreamOk) ==
  /\ calls[c].pc \in {"returned", "threw"}
  /\ c \notin continued
  /\ apiResult = NoApiResult
  /\ continued' = continued \cup {c}
  /\ LET base == [NoApiResult EXCEPT !.call = c,
                    !.requiresUserToken = requiresUserToken,
                    !.userTokenOverride = userTokenOverride]
     IN apiResult' =
          IF RequestError(c, requiresUserToken, userTokenOverride) # "none"
            THEN [base EXCEPT !.outcome = "threw",
                    !.error = RequestError(c, requiresUserToken, userTokenOverride)]
          ELSE [base EXCEPT
                  !.outcome = IF upstreamOk THEN "fetched" ELSE "fetched-error",
                  !.error = IF upstreamOk THEN "none" ELSE "upstream",
                  !.headerNames = IF requiresUserToken
                                    THEN BaseHeaders \cup {UserHeader} ELSE BaseHeaders,
                  !.authorization = calls[c].result.token,
                  !.userTokenHeader = IF requiresUserToken
                                        THEN ResolvedUserToken(userTokenOverride) ELSE ""]
  /\ UNCHANGED manualUserToken
  /\ UNCHANGED <<pvars, rvars, ovars>>

\* the invocation's promise has settled
ApiSettled ==
  /\ apiResult # NoApiResult
  /\ apiResult' = NoApiResult
  /\ UNCHANGED <<manualUserToken, continued>>
  /\ UNCHANGED <<pvars, rvars, ovars>>

\* setMusicUserToken(token), by the auth tool, between two tasks; token is the
\* argument after trim(), "" for a blank one
SetMusicUserToken(token) ==
  /\ microtasks = <<>>
  /\ apiResult = NoApiResult
  /\ manualUserToken # token
  /\ manualUserToken' = token
  /\ UNCHANGED <<continued, apiResult>>
  /\ UNCHANGED <<pvars, rvars, ovars>>

\* a request() invocation runs on as soon as its getToken() has settled
AllContinued ==
  /\ apiResult = NoApiResult
  /\ \A c \in Calls : calls[c].pc \in {"returned", "threw"} => c \in continued

ApiInit ==
  /\ manualUserToken = ""
  /\ continued = {}
  /\ apiResult = NoApiResult

ApiNext ==
  \/ AllContinued /\ ProviderNext
  \/ \E c \in Calls : \E u \in BOOLEAN : \E o \in Tokens \cup {""} : \E ok \in BOOLEAN :
       ApiContinue(c, u, o, ok)
  \/ ApiSettled
  \/ \E t \in Tokens \cup {""} : SetMusicUserToken(t)

(* --------------------------- specifications ---------------------------- *)
Init == ProviderInit /\ ResolverInit /\ OAuthInit /\ ApiInit

Next == ProviderNext \/ ResolverNext \/ OAuthNext \/ ApiNext

\* the whole program
Spec == Init /\ [][Next]_vars

\* the server of client.ts
StatelessInit == Init /\ mode = "stateless"

\* the developer-token provider alone, no HTTP request being served
ProviderSpec == StatelessInit /\ [][ProviderNext]_vars

\* the HTTP handler alone, under one configuration and no getToken() call
ResolverInitEnv ==
  /\ StatelessInit
  /\ env = [creds |-> "ok", hasTTL |-> FALSE, ttl |-> 0]

ResolverSpec == ResolverInitEnv /\ [][ResolverNext]_vars

\* the OAuth handlers alone, of either deployment; the developer token an
\* authorize request awaits arrives or fails as AuthorizeResume chooses
OAuthInitEnv ==
  /\ Init
  /\ env = [creds |-> "ok", hasTTL |-> FALSE, ttl |-> 0]

HandshakeSpec == OAuthInitEnv /\ [][HandshakeNext]_vars

ExchangeSpec == OAuthInitEnv /\ [][ExchangeNext]_vars

\* the handshake of oauthServer.ts with its timer: setInterval keeps firing the
\* sweep every minute whatever requests arrive in between, and a response
\* that is being written goes out
SweepInit == OAuthInitEnv /\ mode = "session"

SweepFairSpec ==
  /\ SweepInit
  /\ [][SweepNext]_vars
  /\ WF_vars(ResponseSent)
  /\ SF_vars(SweepPendingStates)

EndpointsSpec == OAuthInitEnv /\ [][EndpointsNext]_vars

\* the user-credential store of oauthServer.ts alone
StoreInit == OAuthInitEnv /\ mode = "session"

StoreSpec == StoreInit /\ [][StoreNext]_vars

\* the API client of client.ts over its developer-token provider, with no
\* lifetime configured
ApiInitEnv ==
  /\ StatelessInit
  /\ ~env.hasTTL

ApiSpec == ApiInitEnv /\ [][ApiNext]_vars

(* ---------------- properties of the developer-token provider ----------- *)
ArrivedCalls == {c \in Calls : calls[c].pc \notin {"idle", "queued"}}
DoneCalls == {c \in Calls : calls[c].pc \in {"returned", "threw"}}

\* C1: for every configured lifetime, at most one mint is in progress at any
\* time; a getToken() call that arrives while a mint is in progress starts no
\* mint, awaits that mint, and receives that mint's result.
C1_SingleFlight ==
  /\ Cardinality(PendingMints) <= 1
  /\ \A c \in ArrivedCalls :
       calls[c].aPending # {} =>
         /\ calls[c].started = 0
         /\ ~calls[c].hit
         /\ calls[c].promise \in calls[c].aPending
         /\ c \in DoneCalls =>
              IF mints[calls[c].promise].state = "fulfilled"
                THEN /\ calls[c].pc = "returned"
                     /\ calls[c].result.token = mints[calls[c].promise].token
                ELSE /\ calls[c].pc = "threw"
                     /\ calls[c].result.err = mints[calls[c].promise].err

\* a call joined a pending mint whose lifetime is below the 300 s margin and
\* was handed that mint's token
C1_Witness ==
  \E c \in DoneCalls :
    /\ calls[c].aPending # {}
    /\ calls[c].pc = "returned"
    /\ mints[calls[c].promise].ttl < REFRESH_MARGIN_SECONDS
    /\ calls[c].result.token.mint = calls[c].promise

\* C2: when a call starts a mint (no valid cache entry, no mint in progress)
\* and a second call arrives before that mint completes, the second call starts
\* no mint of its own and both calls end with the identical token (or failure).
C2_TwoCallsOneMint ==
  \A c, d \in ArrivedCalls :
    (c # d /\ calls[c].started # 0 /\ calls[c].started \in calls[d].aPending) =>
      /\ calls[d].started = 0
      /\ calls[d].promise = calls[c].started
      /\ Cardinality({m \in StartedMints : mints[m].by \in {c, d}}) = 1
      /\ (c \in DoneCalls /\ d \in DoneCalls) =>
           /\ calls[c].result = calls[d].result
           /\ calls[c].result.kind = "token" =>
                calls[c].result.token.mint = calls[c].started

\* two calls, the second arriving while the first one's mint was pending, both
\* returned the token of that one mint
C2_Witness ==
  \E c, d \in DoneCalls :
    /\ c # d
    /\ calls[c].started # 0
    /\ calls[c].aCached = NoCached
    /\ calls[c].started \in calls[d].aPending
    /\ calls[c].pc = "returned" /\ calls[d].pc = "returned"
    /\ calls[c].result.token = calls[d].result.token
    /\ calls[c].result.token.mint = calls[c].started

\* the cache entry a call found held a credential expiring more than 300 s
\* after the call's now
FoundFresh(c) ==
  /\ calls[c].aCached # NoCached
  /\ calls[c].aCached.expiresAtEpoch > calls[c].aNow + REFRESH_MARGIN_SECONDS

\* C3: getToken() returns the cached credential, starting no mint, exactly
\* when a credential is cached with expiry > now + 300; with expiry <= now + 300
\* or nothing cached, and no mint attempt open, the call starts a new mint.
C3_CacheOrMint ==
  \A c \in ArrivedCalls :
    /\ calls[c].hit <=> FoundFresh(c)
    /\ calls[c].hit =>
         /\ calls[c].pc = "returned"
         /\ calls[c].started = 0 /\ calls[c].promise = 0
         /\ calls[c].result.token = calls[c].aCached.token
    /\ (~FoundFresh(c) /\ calls[c].aOpen = {}) =>
         /\ calls[c].started # 0
         /\ calls[c].started \notin calls[c].aClosed
         /\ mints[calls[c].started].by = c

\* one call was served from the cache, and another found the cached expiry
\* exactly at now + 300 and started a mint
C3_Witness ==
  \E c, d \in ArrivedCalls :
    /\ calls[c].hit /\ calls[c].result.token.mint # 0
    /\ calls[d].aCached # NoCached
    /\ calls[d].aCached.expiresAtEpoch = calls[d].aNow + REFRESH_MARGIN_SECONDS
    /\ calls[d].started # 0

\* C4: once the call that initiated a mint attempt has returned or thrown
\* (the attempt having succeeded, failed on missing configuration or failed in
\* signing), the in-flight marker is idle at that return and never holds that
\* attempt again; no later call awaits the finished attempt: it hits the cache
\* or starts a mint of its own.
C4_MarkerIdleAfterAttempt ==
  /\ [](/\ \A m \in ClosedMints : inFlight # m
        /\ \A c \in ArrivedCalls :
             calls[c].aClosed # {} =>
               /\ calls[c].promise \notin calls[c].aClosed
               /\ calls[c].aOpen = {} => (calls[c].hit \/ calls[c].started # 0))
  /\ [][\A c \in Calls :
          (calls[c].pc = "awaitOwn" /\ calls'[c].pc # "awaitOwn") => inFlight' = 0]_vars

\* attempts of all three kinds have ended and been returned by their
\* initiating calls, and a call that arrived after a failed one started its own
C4_Witness ==
  /\ \E m \in ClosedMints : mints[m].state = "fulfilled"
  /\ \E m \in ClosedMints : mints[m].state = "rejected" /\ mints[m].err = "config"
  /\ \E m \in ClosedMints : mints[m].state = "rejected" /\ mints[m].err = "sign"
  /\ \E c \in DoneCalls :
       /\ \E m \in calls[c].aClosed : mints[m].state = "rejected"
       /\ calls[c].started # 0
  /\ inFlight = 0

\* C5: when a mint fails, every caller that awaited it receives the failure,
\* the cache is what it was when the attempt began, and a call arriving after
\* the failed attempt was returned starts a fresh mint (or hits the cache)
\* instead of receiving the earlier failure.
C5_FailurePropagates ==
  /\ [](/\ \A c \in DoneCalls :
             (calls[c].promise # 0 /\ mints[calls[c].promise].state = "rejected") =>
               /\ calls[c].pc = "threw"
               /\ calls[c].result.kind = "error"
               /\ calls[c].result.err = mints[calls[c].promise].err
        /\ \A c \in ArrivedCalls :
             (\E m \in calls[c].aClosed : mints[m].state = "rejected") =>
               /\ calls[c].promise \notin calls[c].aClosed
               /\ (calls[c].aOpen = {} /\ ~calls[c].hit) =>
                    /\ calls[c].started # 0
                    /\ calls[c].started \notin calls[c].aClosed)
  /\ [][\A m \in MintIds :
          (mints[m].state # "rejected" /\ mints'[m].state = "rejected") =>
            /\ cached' = cached
            /\ cached' = mints'[m].cachedBefore]_vars

\* a signing failure reached the initiating call and a joined caller while a
\* credential minted earlier stayed cached, and a later call minted afresh
C5_Witness ==
  \E m \in ClosedMints : \E c, d, e \in DoneCalls :
    /\ mints[m].state = "rejected"
    /\ mints[m].cachedBefore # NoCached
    /\ calls[c].started = m /\ calls[c].pc = "threw"
    /\ d # c /\ calls[d].promise = m /\ calls[d].pc = "threw"
    /\ m \in calls[e].aClosed /\ calls[e].started # 0
    /\ calls[e].pc = "returned"

\* C6: the lifetime the minter uses lies in [60, 15552000] for every requested
\* lifetime (negative, zero, in range, above the ceiling) and equals the
\* requested lifetime when that is already in range.
C6_ClampInRange ==
  \A m \in StartedMints :
    mints[m].err # "config" =>
      /\ mints[m].ttl >= MIN_TTL_SECONDS
      /\ mints[m].ttl <= SIX_MONTHS_SECONDS
      /\ (mints[m].requested >= MIN_TTL_SECONDS /\
          mints[m].requested <= SIX_MONTHS_SECONDS) => mints[m].ttl = mints[m].requested

\* a mint was asked for a negative lifetime and used the floor
C6_Witness ==
  \E m \in StartedMints :
    mints[m].err # "config" /\ mints[m].requested < 0 /\ mints[m].ttl = MIN_TTL_SECONDS

\* C7: every minted token, and so every cached credential, expires at its
\* issue time + clampTTL(configured lifetime, 86400 when none is configured),
\* hence between issue time + 60 and issue time + 15552000; no mint is rejected
\* because of its requested lifetime.
C7_ExpiryIsIssuePlusClampedTTL ==
  /\ \A m \in StartedMints :
       /\ mints[m].state = "fulfilled" =>
            LET L == IF mints[m].hasTTL THEN mints[m].requested ELSE DEFAULT_TTL_SECONDS IN
            /\ mints[m].token.exp = mints[m].token.iat + clampTTL(L)
            /\ mints[m].token.exp >= mints[m].token.iat + MIN_TTL_SECONDS
            /\ mints[m].token.exp <= mints[m].token.iat + SIX_MONTHS_SECONDS
       /\ mints[m].state = "rejected" => ~mints[m].keyOK
  /\ cached # NoCached =>
       /\ cached.token.mint \in StartedMints
       /\ mints[cached.token.mint].state = "fulfilled"
       /\ cached.token = mints[cached.token.mint].token
       /\ cached.expiresAtEpoch = cached.token.exp

\* a credential minted with no lifetime configured is cached with expiry
\* issue time + 86400
C7_Witness ==
  /\ cached # NoCached
  /\ ~mints[cached.token.mint].hasTTL
  /\ cached.expiresAtEpoch = cached.token.iat + DEFAULT_TTL_SECONDS

(* ------------- properties of the request-time resolution --------------- *)
HandledReqs == {r \in Reqs : reqs[r].pc # "idle"}

\* a tool-transport POST that carries no credential header at all
CarriesOnlySession(r) ==
  /\ reqs[r].mcp /\ reqs[r].method = "POST"
  /\ reqs[r].headers = NoHeaders
  /\ reqs[r].sid # ""

\* C8: a request carrying only session id S1, arriving after a request with
\* bearer U1 and session id S1 bound U1 to S1, is resolved with U1: it is
\* let through to the tool transport and its tool invocation uses U1.
C8_SessionOnlyResolvesToBound ==
  \A r \in HandledReqs :
    (CarriesOnlySession(r) /\ reqs[r].aBound \in Tokens) =>
      /\ reqs[r].pc \in {"body", "tool"}
      /\ reqs[r].pc = "tool" => reqs[r].userToken = reqs[r].aBound

\* C9: the user credential passed to the API client by the tool invocation of
\* a request that carries bearer credential U is U, whatever other requests
\* were handled while this one was reading its body.
C9_BearerUsedForOwnRequest ==
  \A r \in HandledReqs :
    (reqs[r].pc = "tool" /\ parseBearerToken(reqs[r].headers["authorization"]) # "") =>
      reqs[r].userToken = parseBearerToken(reqs[r].headers["authorization"])

\* C10: a tool-transport request carrying a bearer credential under any of
\* the accepted header spellings is let through, its credential is bound to
\* its session id and is the one its tool invocation uses.
C10_AnySpellingAuthenticates ==
  \A r \in HandledReqs :
    (reqs[r].mcp /\ reqs[r].method = "POST" /\ getBearerFromHeaders(reqs[r].headers) # "") =>
      /\ reqs[r].pc \in {"body", "tool"}
      /\ reqs[r].sid # "" => reqs[r].bound = getBearerFromHeaders(reqs[r].headers)
      /\ reqs[r].pc = "tool" => reqs[r].userToken = getBearerFromHeaders(reqs[r].headers)

\* the request in slot r has just passed the credential resolution of the
\* listener (it was neither refused, nor a preflight, nor off the /mcp path)
Resolved(r) ==
  /\ reqs[r].pc = "idle"
  /\ reqs'[r].pc \in {"body", "transport"}

\* C11: when a request carrying bearer credential U and session id S passes
\* the credential resolution, the session map then maps S to U, whatever S was
\* bound to before, every other session keeps its binding, and the pending
\* slot holds U.
C11_BearerBindsSessionAndPending ==
  [][\A r \in Reqs :
       LET U == parseBearerToken(reqs'[r].headers["authorization"])
           S == reqs'[r].sid
       IN (Resolved(r) /\ U # "" /\ S # "") =>
            /\ sessionTokens'[S] = U
            /\ \A o \in SessionIds \ {S} : sessionTokens'[o] = sessionTokens[o]
            /\ pendingToken' = U]_vars

\* a request with bearer U2 and session S1 found S1 bound to U1 and left S1
\* bound to U2 and the pending slot holding U2
C11_Witness ==
  \E r \in HandledReqs :
    /\ reqs[r].pc \in {"body", "transport"}
    /\ parseBearerToken(reqs[r].headers["authorization"]) = "U2"
    /\ reqs[r].sid = "S1"
    /\ reqs[r].aBound = "U1"
    /\ reqs[r].bound = "U2"
    /\ sessionTokens["S1"] = "U2"
    /\ pendingToken = "U2"

\* the listener has just taken the request in slot r off the wire
Received(r) ==
  /\ reqs[r].pc = "idle"
  /\ reqs'[r].pc # "idle"

\* C12: a tool-transport request that carries no bearer credential and a
\* session id S with no bound credential, arriving while the pending slot holds
\* P, is let through, leaves S bound to P and the slot holding P, and its tool
\* invocation uses the credential so bound.
C12_PendingUsedAndBound ==
  [][\A r \in Reqs :
       LET S == reqs'[r].sid
           NoBearer == getBearerFromHeaders(reqs'[r].headers) = ""
       IN /\ (Received(r) /\ reqs'[r].mcp /\ reqs'[r].method = "POST" /\ NoBearer
                /\ S # "" /\ SessionGet(S) = "" /\ pendingToken # "") =>
               /\ reqs'[r].pc = "body"
               /\ sessionTokens'[S] = pendingToken
               /\ reqs'[r].bound = pendingToken
               /\ pendingToken' = pendingToken
          /\ (reqs[r].pc = "body" /\ reqs'[r].pc = "tool" /\ NoBearer
                /\ S # "" /\ reqs[r].aBound = "") =>
               /\ reqs'[r].userToken # ""
               /\ reqs'[r].userToken = reqs[r].bound]_vars

\* the pending slot after a step holds the credential of the bearer-carrying
\* request the step resolved, if it resolved one
PendingLastWriteWins(r) ==
  LET U == parseBearerToken(reqs'[r].headers["authorization"])
  IN (Resolved(r) /\ U # "") => pendingToken' = U

\* a tool invocation, which reads the slot when its request has no session
\* id, leaves the slot as it was
PendingReadKeeps(r) ==
  (reqs[r].pc = "body" /\ reqs'[r].pc = "tool") =>
    /\ pendingToken' = pendingToken
    /\ reqs[r].sid = "" => reqs'[r].userToken = pendingToken

\* a request with a session id and no bearer credential, arriving while the
\* slot holds a credential, gets that credential bound to its session id and
\* leaves the slot as it was
PendingBindCopies(r) ==
  LET S == reqs'[r].sid
  IN (Received(r) /\ reqs'[r].mcp /\ reqs'[r].method = "POST"
       /\ getBearerFromHeaders(reqs'[r].headers) = "" /\ S # "" /\ pendingToken # "") =>
       /\ sessionTokens'[S] = pendingToken
       /\ pendingToken' = pendingToken

\* C13: the pending slot is one last-write-wins slot: each bearer-carrying
\* request that is resolved leaves its own credential there; reading the slot
\* leaves it unchanged; binding it to the session id of a request that brings
\* none of its own copies it and leaves it unchanged, for one session id after
\* another.
C13_PendingSlotLastWriteWins ==
  [][\A r \in Reqs :
       PendingLastWriteWins(r) /\ PendingReadKeeps(r) /\ PendingBindCopies(r)]_vars

(* -------------------- properties of the OAuth handshake ---------------- *)
\* an OAuth handler has just answered the request whose parameters and
\* response resp' holds
Handled(handler) ==
  /\ resp = NoResp
  /\ resp'.handler = handler

\* C14: a callback that presents a credential and a state token whose
\* pending-state entry exists but expired before now (the sweep has not removed
\* it yet) fails: it issues no redirect and stores no user credential.
C14_ExpiredStateRejected ==
  [][LET entry == PendingGet(resp'.req.state)
     IN (Handled("callback") /\ resp'.req.token # ""
          /\ entry.present /\ entry.expiresAt < now) =>
          /\ resp'.status >= 400
          /\ resp'.location = ""
          /\ userTokens' = userTokens]_vars

\* C15: a callback that presents a credential and a state token for which no
\* authorize step has created a pending-state entry fails with a client error,
\* issues no redirect and leaves the pending-state map and the user-credential
\* store as they were.
C15_UnknownStateRejected ==
  [][LET state == resp'.req.state
     IN (Handled("callback") /\ resp'.req.token # "" /\ state \in StateTokens
          /\ hist[state].status = "never") =>
          /\ resp'.status = 400
          /\ resp'.location = ""
          /\ pendingStates' = pendingStates
          /\ userTokens' = userTokens]_vars

\* an authorize step recorded redirect target R for the state token the
\* request in resp' presents, no callback has used it since, and its
\* 10-minute window is still open
WithinWindow(state) ==
  /\ state \in StateTokens
  /\ hist[state].status = "open"
  /\ now <= hist[state].at + STATE_TTL_SECONDS

\* C16: authorize(redirect = R, state = S), R a URL, followed within the
\* expiry window by callback(token = T, state = S) yields a redirect whose
\* target is the R of the authorize step, whatever URL the callback request
\* supplies as its own redirect_uri, with a code parameter present and the
\* state parameter equal to S.
C16_RedirectToRecordedTarget ==
  [][LET state == resp'.req.state
     IN (Handled("callback") /\ resp'.req.token # "" /\ WithinWindow(state)
          /\ ValidURL(hist[state].redirectUri) /\ ValidURL(resp'.req.redirect)) =>
          /\ resp'.status = 302
          /\ resp'.location = hist[state].redirectUri
          /\ resp'.code # NoValue
          /\ resp'.state = state]_vars

\* C17: a pending-state entry is consumed exactly once: after a callback with
\* state S was answered with a redirect, every further callback with S that no
\* new authorize step for S precedes fails and issues no redirect.
C17_StateConsumedOnce ==
  [][LET state == resp'.req.state
     IN (Handled("callback") /\ state \in StateTokens
          /\ hist[state].status = "used") =>
          /\ resp'.status >= 400
          /\ resp'.location = ""]_vars

(* -------------------- properties of the token endpoint ----------------- *)
\* C18: a token-exchange request whose grant_type is not the literal
\* authorization_code, or is absent, fails with a client error, returns no
\* access token and leaves the user-credential store unchanged.
C18_OtherGrantRejected ==
  [][(Handled("token") /\ resp'.req.grant # "authorization_code") =>
       /\ resp'.status = 400
       /\ resp'.accessToken = NoValue
       /\ userTokens' = userTokens
       /\ uuids' = uuids]_vars

\* a refresh_token request carrying a code was refused while the store held
\* a record of an earlier exchange
C18_Witness ==
  /\ resp.handler = "token"
  /\ resp.req.grant = "refresh_token" /\ resp.req.code = "U1"
  /\ resp.status = 400
  /\ userTokens[1].present
  /\ \A u \in Uuids : u > 1 => ~userTokens[u].present

\* C19: a token exchange with grant_type authorization_code and code C
\* succeeds and returns token type Bearer, an expiry hint of 7776000 seconds,
\* and as access token C itself in the stateless mode, or in the
\* session-tracking mode a session identifier A never handed out before, which
\* the user-credential store maps to C right after (its other records
\* untouched).
C19_ExchangeIssuesAccessToken ==
  [][Handled("token") =>
       LET C == resp'.req.code IN
       /\ (resp'.req.grant = "authorization_code" /\ C # "") => resp'.status = 200
       /\ resp'.status = 200 =>
            /\ resp'.tokenType = "Bearer"
            /\ resp'.expiresIn = 7776000
            /\ mode = "stateless" =>
                 /\ resp'.accessToken = CredValue(C)
                 /\ userTokens' = userTokens
            /\ mode = "session" =>
                 \E A \in Uuids :
                   /\ resp'.accessToken = UuidValue(A)
                   /\ A > uuids /\ ~userTokens[A].present
                   /\ userTokens'[A].present /\ userTokens'[A].token = C
                   /\ \A o \in Uuids \ {A} : userTokens'[o] = userTokens[o]]_vars

\* the second exchange of a session-tracking server returned a new session
\* id that the store maps to the code U2, beside the first one mapped to U1
C19_Witness ==
  /\ mode = "session"
  /\ resp.handler = "token" /\ resp.status = 200
  /\ resp.req.code = "U2"
  /\ resp.accessToken = UuidValue(2)
  /\ userTokens[2].present /\ userTokens[2].token = "U2"
  /\ userTokens[1].present /\ userTokens[1].token = "U1"

\* C20: in the session-tracking mode the code attached to the callback's
\* redirect is a generated identifier, not the user credential posted to the
\* callback, and the user-credential store maps that identifier to the
\* credential; the credential is no part of the redirect URL.
C20_CodeIsNotTheCredential ==
  (mode = "session" /\ resp.handler = "callback" /\ resp.status = 302) =>
    /\ resp.code.cred # resp.req.token
    /\ \E A \in Uuids :
         /\ resp.code = UuidValue(A)
         /\ userTokens[A].present
         /\ userTokens[A].token = resp.req.token

(* ---------------- properties of the user-credential store -------------- *)
\* C21: storeUserToken(sessionId, token, ttlSeconds) replaces whatever record
\* sessionId had and leaves the records of all other session ids unchanged;
\* for every ttlSeconds supplied, 0 included, the new record expires at
\* now + ttlSeconds, and with ttlSeconds omitted it has no expiry.
C21_PutReplacesAndSetsExpiry ==
  [][Handled("put") =>
       LET u == resp'.req.sessionId
           e == resp'.req.ttl
       IN /\ userTokens'[u].present
          /\ userTokens'[u].token = resp'.req.token
          /\ \A o \in Uuids \ {u} : userTokens'[o] = userTokens[o]
          /\ e.given => (userTokens'[u].hasExpiry /\ userTokens'[u].expiresAt = now + e.value)
          /\ ~e.given => ~userTokens'[u].hasExpiry]_vars

\* C22: getStoredUserToken(sessionId) returns the stored token exactly when
\* sessionId has a record whose expiry is absent or strictly later than now (a
\* record expiring exactly now is not returned); otherwise it returns nothing,
\* and a record that was there is evicted, so that later calls return nothing
\* too.
C22_GetReturnsLiveRecord ==
  [][Handled("get") =>
       LET u == resp'.req.sessionId
           stored == UserTokensGet(u)
           live == stored.present /\ (~stored.hasExpiry \/ stored.expiresAt > now)
       IN /\ live => (resp'.returned = stored.token /\ userTokens' = userTokens)
          /\ ~live =>
               /\ resp'.returned = ""
               /\ \A o \in Uuids : ~userTokens'[o].present \/ userTokens'[o] = userTokens[o]
               /\ stored.present => ~userTokens'[u].present]_vars

\* C23: a user-credential record without expiry is never removed, it can only
\* be replaced by a storeUserToken on its own session id; a record with an
\* expiry is removed only by a getStoredUserToken on its own session id made
\* after the expiry has passed; nothing sweeps the store as time passes.
C23_RecordsRemovedOnlyByLateGet ==
  [][\A u \in Uuids :
       /\ (userTokens[u].present /\ ~userTokens'[u].present) =>
            /\ Handled("get") /\ resp'.req.sessionId = u
            /\ userTokens[u].hasExpiry /\ userTokens[u].expiresAt < now
       /\ (userTokens[u].present /\ userTokens'[u] # userTokens[u]
             /\ userTokens'[u].present) =>
            /\ Handled("put") /\ resp'.req.sessionId = u]_vars

\* a record whose expiry has passed is still stored after time went by and
\* after a lookup of another session id, whose record has no expiry
C23_Witness ==
  /\ userTokens[1].present /\ userTokens[1].hasExpiry /\ userTokens[1].expiresAt < now
  /\ userTokens[2].present /\ ~userTokens[2].hasExpiry
  /\ resp.handler = "get" /\ resp.req.sessionId = 2
  /\ resp.returned = userTokens[2].token

(* ------------------------ properties of the API client ----------------- *)
\* a request() invocation has just run, and its getToken() call
Invoked == apiResult # NoApiResult
Delivered == calls[apiResult.call].pc = "returned"
NoUserCredential == apiResult.userTokenOverride = "" /\ manualUserToken = ""
IssuedUpstream == apiResult.outcome \in {"fetched", "fetched-error"}

\* C24 as stated: a user-scoped operation with no override and no manually set
\* token fails with the missing-user-credential error and issues no upstream
\* request, and a catalog operation issues its upstream request without a
\* user credential
C24_MissingUserCredentialError ==
  Invoked =>
    /\ (apiResult.requiresUserToken /\ NoUserCredential) =>
         /\ apiResult.outcome = "threw"
         /\ apiResult.error = "missing-user-token"
         /\ apiResult.headerNames = {}
    /\ ~apiResult.requiresUserToken =>
         /\ IssuedUpstream
         /\ UserHeader \notin apiResult.headerNames

\* C24, amended: when the provider delivered the developer credential, a
\* user-scoped operation with no override and no manually set token fails with
\* the missing-user-credential error and issues no upstream request, and a
\* catalog operation issues its upstream request without a user credential;
\* when the provider failed, the operation fails with the provider's error
\* and issues no upstream request
C24_MissingUserCredentialAfterProvider ==
  Invoked =>
    /\ (Delivered /\ apiResult.requiresUserToken /\ NoUserCredential) =>
         /\ apiResult.outcome = "threw"
         /\ apiResult.error = "missing-user-token"
         /\ apiResult.headerNames = {}
    /\ (Delivered /\ ~apiResult.requiresUserToken) =>
         /\ IssuedUpstream
         /\ UserHeader \notin apiResult.headerNames
         /\ apiResult.userTokenHeader = ""
    /\ ~Delivered =>
         /\ apiResult.outcome = "threw"
         /\ apiResult.error = calls[apiResult.call].result.err
         /\ apiResult.error # "missing-user-token"
         /\ apiResult.headerNames = {}

\* a user-scoped operation has just failed for want of a user credential
C24_Witness ==
  /\ Invoked
  /\ Delivered
  /\ apiResult.requiresUserToken
  /\ NoUserCredential
  /\ apiResult.error = "missing-user-token"

\* C25: every upstream request carries the developer credential the provider
\* returned to that invocation as Authorization, and Music-User-Token exactly
\* when the operation is user-scoped, its value the override when given and
\* the manually set token otherwise; it carries no other credential header
C25_TwoCredentialHeaders ==
  IssuedUpstream =>
    /\ Delivered
    /\ apiResult.authorization # NoToken
    /\ apiResult.authorization = calls[apiResult.call].result.token
    /\ apiResult.headerNames \subseteq BaseHeaders \cup {UserHeader}
    /\ "Authorization" \in apiResult.headerNames
    /\ UserHeader \in apiResult.headerNames <=> apiResult.requiresUserToken
    /\ apiResult.userTokenHeader =
         IF ~apiResult.requiresUserToken THEN ""
         ELSE IF apiResult.userTokenOverride # "" THEN apiResult.userTokenOverride
         ELSE manualUserToken
    /\ apiResult.requiresUserToken => apiResult.userTokenHeader # ""

\* a user-scoped request went upstream with the override although another
\* token is manually set
C25_Witness ==
  /\ IssuedUpstream
  /\ apiResult.requiresUserToken
  /\ apiResult.userTokenOverride # ""
  /\ manualUserToken # ""
  /\ manualUserToken # apiResult.userTokenOverride
  /\ apiResult.userTokenHeader = apiResult.userTokenOverride

(* ----------------------- properties of the 401 gate -------------------- *)
\* request r has no Authorization header on a path that begins with /mcp
NoAuthorization(r) ==
  /\ reqs'[r].mcp
  /\ reqs'[r].headers["authorization"] = <<>>

\* C26: a request on a path beginning with /mcp that carries no Authorization
\* header is answered 401 with the challenge naming the protected-resource
\* discovery document and changes neither the session map nor the pending
\* slot; a request answered 401 goes on to nothing but the end of its exchange
C26_NoAuthorizationIs401 ==
  [][\A r \in Reqs :
       /\ (Received(r) /\ NoAuthorization(r)) =>
            /\ reqs'[r].pc = "401"
            /\ reqs'[r].challenge = ProtectedResourceMetadata
            /\ sessionTokens' = sessionTokens
            /\ pendingToken' = pendingToken
       /\ reqs[r].pc = "401" =>
            /\ reqs'[r] \in {reqs[r], NoReq}
            /\ (reqs'[r] # reqs[r] => sessionTokens' = sessionTokens /\ pendingToken' = pendingToken)
  ]_vars

\* a request naming a bound session, its credential under another header
\* name, has been answered 401 while the pending slot is set
C26_Witness ==
  \E r \in Reqs :
    /\ reqs[r].pc = "401"
    /\ reqs[r].challenge = ProtectedResourceMetadata
    /\ reqs[r].sid # ""
    /\ reqs[r].aBound # ""
    /\ getBearerFromHeaders(reqs[r].headers) # ""
    /\ pendingToken # ""

(* ------------------ properties of failing handshake steps -------------- *)
\* C27: when authorize fails after it accepted its parameters (the developer
\* token could not be minted), no pending-state entry for its state remains
C27_FailedAuthorizeLeavesNoEntry ==
  [][(Handled("authorize-resume") /\ resp'.status = 500) =>
       ~pendingStates'[resp'.req.state].present]_vars

\* a handshake request that lacks a required parameter has just been answered
MissingParameter ==
  \/ Handled("authorize") /\ (resp'.req.redirect = "" \/ resp'.req.state = "")
  \/ Handled("callback") /\ (resp'.req.token = "" \/ resp'.req.state = "")
  \/ Handled("token") /\ resp'.req.code = ""

\* C28: a handshake request that lacks a required parameter (authorize without
\* redirect_uri or state, callback without credential or state, token exchange
\* without code) is answered 400 and changes nothing: the pending states, the
\* user records, the ids handed out and the authorize requests awaiting a
\* developer token stay as they were, so no entry and no await ever stems from
\* a request without redirect_uri
C28_MissingParameterIs400 ==
  [][/\ MissingParameter =>
          /\ resp'.status = 400
          /\ UNCHANGED <<pendingStates, userTokens, uuids, authz, hist>>
          /\ UNCHANGED pvars
     /\ \A st \in StateTokens :
          /\ pendingStates'[st].present => pendingStates'[st].redirectUri # ""
          /\ hist'[st].status = "open" => hist'[st].redirectUri # ""
  ]_vars

\* a token exchange without code has been refused while a pending state and a
\* user record exist
C28_Witness ==
  /\ resp.handler = "token"
  /\ resp.req.code = ""
  /\ resp.status = 400
  /\ \E st \in StateTokens : pendingStates[st].present
  /\ \E u \in Uuids : userTokens[u].present

(* --------------- properties of the sweep of pending states ------------- *)
\* the sweep has just removed an entry: the only step that changes
\* pendingStates while no request is answered or begins to await
SweepRemoved ==
  /\ mode = "session"
  /\ pendingStates' # pendingStates
  /\ resp = NoResp /\ resp' = NoResp
  /\ authz' = authz

\* C29: a sweep removes exactly the entries whose expiry is earlier than the
\* current time and leaves the others as they are; a callback redirects only
\* when it found the entry, which is absent afterwards, so an entry yields at
\* most one redirect whether the sweep ran before or after; a callback whose
\* entry is gone is answered 400 with everything unchanged, and a callback
\* raises an error only for a recorded target that is no URL
C29_SweepAndCallbackDoNotConflict ==
  [][/\ SweepRemoved =>
          \A st \in StateTokens :
            pendingStates'[st] =
              IF pendingStates[st].present /\ pendingStates[st].expiresAt < now
                THEN NoEntry ELSE pendingStates[st]
     /\ (mode = "session" /\ Handled("callback")) =>
          LET st == resp'.req.state IN
          /\ resp'.status \in {302, 400, 500}
          /\ ~PendingGet(st).present =>
               /\ resp'.status = 400
               /\ resp'.error = ""
               /\ UNCHANGED <<pendingStates, userTokens, uuids, hist>>
          /\ resp'.status = 302 =>
               /\ PendingGet(st).present
               /\ ~pendingStates'[st].present
               /\ \A other \in StateTokens \ {st} : pendingStates'[other] = pendingStates[other]
          /\ resp'.status = 500 =>
               /\ PendingGet(st).present
               /\ ~ValidURL(PendingGet(st).redirectUri)
               /\ ~pendingStates'[st].present
  ]_vars

\* the sweep removed an expired entry and the callback that came for it
\* afterwards has been answered 400
C29_Witness ==
  \E st \in StateTokens :
    /\ mode = "session"
    /\ resp.handler = "callback"
    /\ resp.req.state = st
    /\ resp.req.token # ""
    /\ resp.status = 400
    /\ hist[st].status = "open"
    /\ ValidURL(hist[st].redirectUri)
    /\ hist[st].at + STATE_TTL_SECONDS < now
    /\ ~pendingStates[st].present

\* the entry of state st is present and its expiry has elapsed
ExpiredEntry(st) == SweepExpired(pendingStates[st])

\* C30: every pending-state entry has an expiry at most the lifetime of a
\* pending state ahead of the clock, and an entry whose expiry has elapsed
\* eventually is in the Map no more: the sweep removes it when no callback
\* consumed it and no later authorize for the same state put a new entry in
\* its place
C30_EntriesEventuallyRemoved ==
  /\ [](\A st \in StateTokens :
          pendingStates[st].present => pendingStates[st].expiresAt <= now + STATE_TTL_SECONDS)
  /\ \A st \in StateTokens : ExpiredEntry(st) ~> ~ExpiredEntry(st)

\* an entry has outlived its expiry and no callback has consumed it
C30_Witness ==
  \E st \in StateTokens :
    /\ ExpiredEntry(st)
    /\ hist[st].status = "open"
    /\ resp = NoResp

(* ------------- properties of binding across session ids ---------------- *)
\* request q is in flight, having presented credential U on session id A
InFlightWith(q, A, U) ==
  /\ reqs[q].pc \in {"body", "transport"}
  /\ reqs[q].sid = A
  /\ parseBearerToken(reqs[q].headers["authorization"]) = U

\* C31: requests interleave and a credential is bound to the wrong session:
\* while a request of session A that presented credential U is in flight and
\* the pending slot holds U, a request of another, unbound session B that
\* presents no credential gets B bound to U
C31_PendingMisbindsAcrossSessions ==
  [][\A q, r \in Reqs : \A A, B \in SessionIds : \A U \in Tokens :
       (/\ A # B
        /\ InFlightWith(q, A, U)
        /\ pendingToken = U
        /\ SessionGet(B) = ""
        /\ Received(r)
        /\ reqs'[r].mcp /\ reqs'[r].method = "POST"
        /\ reqs'[r].sid = B
        /\ getBearerFromHeaders(reqs'[r].headers) = "") =>
         sessionTokens'[B] = U]_vars

\* the Authorization header of request r is present
HasAuthorization(r) == reqs'[r].headers["authorization"] # <<>>

\* C32: a request that reaches the binding of credential and session id
\* carries an Authorization header, so no binding ever stems from the pending
\* slot: a session id gets a new binding only from the bearer credential of a
\* request that names it
C32_PendingBindingBranchIsDead ==
  [][/\ \A r \in Reqs : Resolved(r) => HasAuthorization(r)
     /\ \A s \in SessionIds :
          sessionTokens'[s] # sessionTokens[s] =>
            \E r \in Reqs :
              /\ Resolved(r)
              /\ reqs'[r].sid = s
              /\ parseBearerToken(reqs'[r].headers["authorization"]) = sessionTokens'[s]
  ]_vars

\* a request whose Authorization header is no bearer credential reached the
\* binding with an unbound session id while the pending slot was set, and its
\* session id is still unbound
C32_Witness ==
  \E r \in HandledReqs :
    /\ reqs[r].pc \in {"body", "transport"}
    /\ reqs[r].headers["authorization"] # <<>>
    /\ parseBearerToken(reqs[r].headers["authorization"]) = ""
    /\ reqs[r].sid # ""
    /\ reqs[r].aBound = ""
    /\ pendingToken # ""
    /\ sessionTokens[reqs[r].sid] = ""

\* C33: the step that takes in a request with session id A leaves the binding
\* of every other session id as it was, and when the request's Authorization
\* header is no well-formed Bearer value the step changes no binding and not
\* the pending slot
C33_ResolutionFrame ==
  [][\A r \in Reqs :
       Received(r) =>
         /\ \A B \in SessionIds :
              B # reqs'[r].sid => sessionTokens'[B] = sessionTokens[B]
         /\ parseBearerToken(reqs'[r].headers["authorization"]) = "" =>
              /\ sessionTokens' = sessionTokens
              /\ pendingToken' = pendingToken
  ]_vars

\* a request with bearer U2 on session S1 was bound while S2 kept U1
C33_Witness ==
  \E r \in HandledReqs :
    /\ reqs[r].pc \in {"body", "transport"}
    /\ reqs[r].sid = "S1"
    /\ parseBearerToken(reqs[r].headers["authorization"]) = "U2"
    /\ sessionTokens["S1"] = "U2"
    /\ sessionTokens["S2"] = "U1"

(* --------------- properties of the cached developer token -------------- *)
\* C34: whenever the cached developer token is replaced, the new one was
\* minted no earlier than the one it replaces and the cached expiry does not
\* decrease
C34_CachedExpiryMonotone ==
  [][cached' # cached =>
       /\ cached'.token.mint # 0
       /\ cached'.token.iat >= cached.token.iat
       /\ cached'.expiresAtEpoch >= cached.expiresAtEpoch]_vars

\* the token of a later mint, issued later, has replaced the token of the
\* first mint in the cache
C34_Witness ==
  /\ cached.token.mint > 1
  /\ mints[1].state = "fulfilled"
  /\ cached.token.iat > mints[1].token.iat
  /\ cached.expiresAtEpoch > mints[1].token.exp

C36_ProviderBeforeUserCheck ==
  Invoked =>
    /\ calls[apiResult.call].pc \in {"returned", "threw"}
    /\ apiResult.error = "missing-user-token" =>
         /\ Delivered
         /\ calls[apiResult.call].result.token # NoToken
    /\ (~Delivered /\ apiResult.requiresUserToken /\ NoUserCredential) =>
         /\ apiResult.outcome = "threw"
         /\ apiResult.error = calls[apiResult.call].result.err
         /\ apiResult.error \in {"config", "sign"}

\* a user-scoped invocation without user credential started a mint that
\* failed, and fails with the minting error
C36_Witness ==
  /\ Invoked
  /\ apiResult.requiresUserToken
  /\ NoUserCredential
  /\ calls[apiResult.call].started # 0
  /\ calls[apiResult.call].pc = "threw"
  /\ apiResult.error = "sign"

(* ------------- properties of the session-tracking token exchange ------- *)
\* C37: in the session-tracking mode a token exchange with grant type
\* authorization_code and a non-empty code succeeds whatever the pending
\* states and the callbacks so far: it hands out a session id no earlier
\* request got, stores the code under it with an expiry 90 days ahead, and
\* leaves the pending states and every other record, an earlier exchange of
\* the same code included, as they were
C37_ExchangeIgnoresHandshake ==
  [][(/\ mode = "session"
      /\ Handled("token")
      /\ resp'.req.grant = "authorization_code"
      /\ resp'.req.code # "") =>
       LET sessionId == uuids + 1 IN
       /\ resp'.status = 200
       /\ resp'.accessToken = UuidValue(sessionId)
       /\ ~userTokens[sessionId].present
       /\ userTokens'[sessionId] =
            [present |-> TRUE, token |-> resp'.req.code, hasExpiry |-> TRUE,
             expiresAt |-> now + USER_TOKEN_TTL_SECONDS]
       /\ \A u \in Uuids \ {sessionId} : userTokens'[u] = userTokens[u]
       /\ pendingStates' = pendingStates
       /\ hist' = hist
  ]_vars

\* the same code has been exchanged twice, no callback ever having carried
\* it: two session ids are bound to it, each with its expiry
C37_Witness ==
  /\ mode = "session"
  /\ resp.handler = "token"
  /\ resp.status = 200
  /\ resp.accessToken = UuidValue(2)
  /\ userTokens[1].present /\ userTokens[2].present
  /\ userTokens[1].token = resp.req.code
  /\ userTokens[2].token = resp.req.code
  /\ userTokens[1].hasExpiry /\ userTokens[2].hasExpiry
  /\ \A st \in StateTokens : hist[st].status = "never" /\ ~pendingStates[st].present

====
